---- MODULE Spec2Model ----
(***************************************************************************)
(* A model of src/firebase.ts: the dual-write / smart-read layer over the  *)
(* Realtime Database (rtdb, the "FastStore") and Firestore (db, the        *)
(* "DurableStore").                                                        *)
(*                                                                         *)
(* A slot of `call` is a caller that awaits each of its calls before it    *)
(* makes the next; each `await` inside a function is one step, so that the *)
(* calls of different callers interleave exactly at the awaits.  A store   *)
(* operation that is awaited either resolves or rejects (the SDK promise), *)
(* chosen by the step.                                                     *)
(* A behaviour exercises one family of functions (users, content_data,    *)
(* system_settings, content_links, test_results, status, email), fixed by *)
(* Init, against the stores that family starts from.                      *)
(* An optional value (a snapshot that may not exist, a nullable return) is *)
(* a sequence of length 0 or 1.                                            *)
(***************************************************************************)
EXTENDS Naturals, Sequences, FiniteSets

\* ------------------------------------------------------------- bounds
NumCalls == 1
NumUsers == 1
NumKeys == 1
MaxSnapshots == 3
MaxCancels == 2
NumLinks == 2

Slots == 1 .. NumCalls
UserIds == 1 .. NumUsers
ChapterKeys == 1 .. NumKeys
\* The keys a bulk upload may name.
LinkKeys == 1 .. NumLinks
\* The code never inspects a payload: two distinct ones tell a fresh value
\* from a stale one.
Payloads == {"p", "q"}

\* ------------------------------------------------------------- values
None == << >>
Some(x) == << x >>

\* A user object: `user.id` is the key it is stored under (line 63, 67).
Users == [id : UserIds, name : Payloads]

\* The single settings document / node.
SettingsKey == 0

\* ------------------------------------------------------------- state
VARIABLES
    family,           \* the API family the run exercises (frozen by Init)
    app, db, rtdb,    \* module handles: TRUE = initialised, FALSE = null
    rtdbUsers,        \* RTDB  users/<id>
    fsUsers,          \* Firestore  users/<id>
    rtdbContentData,  \* RTDB  content_data/<key>
    fsContentData,    \* Firestore  content_data/<key>
    rtdbSettings,     \* RTDB  system_settings
    fsSettings,       \* Firestore  config/system_settings
    rtdbContentLinks, \* RTDB  content_links/<key>
    batch,            \* per caller, the Firestore writes its bulk save dispatched
    fsTestResults,    \* Firestore  users/<id>/test_results/<docId>
    call,             \* per caller, its latest call
    sub               \* the subscription of the run and what it delivered

stores == << rtdbUsers, fsUsers, rtdbContentData, fsContentData,
             rtdbSettings, fsSettings >>
handles == << family, app, db, rtdb >>
\* The paths only one store holds, and the bulk writes in flight.
rest == << rtdbContentLinks, batch, fsTestResults >>
vars == << handles, stores, rest, call, sub >>

\* ------------------------------------------------------------- calls
Idle ==
    [op |-> "idle", pc |-> "idle", key |-> 0, data |-> None,
     fast |-> "none", dur |-> "none", res |-> None,
     solo |-> FALSE, expect |-> None, afterBulk |-> None]

SaveOps == {"saveUserToLive", "saveChapterData", "saveSystemSettings"}
GetOps == {"getUserData", "getChapterData"}

\* The namespace an operation addresses.
FamilyOf(op) ==
    CASE op \in {"saveUserToLive", "getUserData", "updateUserStatus",
                 "getUserByEmail"} -> "users"
      [] op \in {"saveChapterData", "getChapterData"} -> "content_data"
      [] op = "bulkSaveLinks" -> "content_links"
      [] op = "saveTestResult" -> "test_results"
      [] OTHER -> "system_settings"

PathOf(r) == << FamilyOf(r.op), r.key >>

InFlight(r) == r.pc \in {"await_rtdb", "await_fs"}

\* `if (!db || !rtdb) return` : the guard every dual operation starts with.
Unready == ~db \/ ~rtdb

\* A call that returned at the guard: nothing issued, undefined / null result.
Skipped(op, key, data) ==
    [Idle EXCEPT !.op = op, !.pc = "done", !.key = key, !.data = data]

\* The caller of slot c is between calls; or its save has just returned
\* and it goes on to read (`await save(...); await get(...)`).
Free(c) == call[c].pc = "idle"
Saved(c) ==
    call[c].pc = "done" /\ call[c].op \in SaveOps \cup {"bulkSaveLinks"}

\* The save `r` starts in slot c.  History: `solo` says that no other save
\* of the same path has been in flight since this one started; the other
\* saves of the path lose it, and the reads of the path that are in flight
\* no longer follow an undisturbed save.
BeginSave(c, r) ==
    LET others == {d \in DOMAIN call \ {c} : PathOf(call[d]) = PathOf(r)}
        alone == \A d \in others :
                    ~(call[d].op \in SaveOps /\ InFlight(call[d]))
    IN  call' = [d \in DOMAIN call |->
                   IF d = c THEN [r EXCEPT !.solo = alone]
                   ELSE IF d \in others /\ call[d].op \in SaveOps
                        THEN [call[d] EXCEPT !.solo = FALSE]
                        ELSE IF d \in others /\ InFlight(call[d])
                             THEN [call[d] EXCEPT !.expect = None]
                             ELSE call[d]]

\* The read `r` starts in slot c.  History: when the caller's previous call
\* was a save of the same path that has returned and is still `solo`, the
\* read follows it: << payload, FastStore outcome, DurableStore outcome >>.
\* When it was a bulk save that has returned, `afterBulk` is its mapping,
\* the outcome of its RTDB update and where its Firestore writes stand.
BeginGet(c, r) ==
    LET prev == call[c]
    IN  call' = [call EXCEPT ![c] =
                   [r EXCEPT !.expect =
                       IF /\ prev.op \in SaveOps /\ prev.pc = "done"
                          /\ PathOf(prev) = PathOf(r) /\ prev.solo
                       THEN Some(<< prev.data, prev.fast, prev.dur >>)
                       ELSE None,
                             !.afterBulk =
                       IF prev.op = "bulkSaveLinks" /\ prev.pc = "done"
                       THEN Some(<< prev.data[1], prev.fast,
                                    [k \in DOMAIN batch[c] |-> batch[c][k].st] >>)
                       ELSE None]]

\* ------------------------------------------------------------- users
\* Faulty variant of saveUserToLive: the readiness guard is missing.
saveUserToLive_unguarded(c, user) ==
    /\ Free(c)
    /\ BeginSave(c, [Idle EXCEPT !.op = "saveUserToLive", !.pc = "await_rtdb",
                                 !.key = user.id, !.data = Some(user)])
    /\ UNCHANGED << handles, rest, sub, stores >>

\* saveUserToLive, entry: the guard, then `set(userRef, user)` is issued.
saveUserToLive(c, user) ==
    /\ Free(c)
    /\ IF Unready
       THEN /\ call' = [call EXCEPT
                          ![c] = Skipped("saveUserToLive", user.id, Some(user))]
       ELSE BeginSave(c, [Idle EXCEPT !.op = "saveUserToLive",
                                      !.pc = "await_rtdb",
                                      !.key = user.id, !.data = Some(user)])
    /\ UNCHANGED << handles, rest, sub, stores >>

\* Faulty variant of saveUserToLive_set: the write resolves but lands on
\* another node, so users/<id> keeps what it held.
saveUserToLive_set_elsewhere(c) ==
    /\ call[c].op = "saveUserToLive"
    /\ call[c].pc = "await_rtdb"
    /\ call' = [call EXCEPT ![c].fast = "ok", ![c].pc = "await_fs"]
    /\ UNCHANGED << handles, rest, sub, stores >>

\* `await set(userRef, user)` settles: resolved, the RTDB node holds the user
\* and setDoc is issued; rejected, the catch logs and the function returns.
saveUserToLive_set(c) ==
    /\ call[c].op = "saveUserToLive"
    /\ call[c].pc = "await_rtdb"
    /\ \E ok \in BOOLEAN :
          IF ok
          THEN /\ rtdbUsers' = [rtdbUsers EXCEPT ![call[c].key] = call[c].data]
               /\ call' = [call EXCEPT ![c].fast = "ok", ![c].pc = "await_fs"]
             ELSE /\ UNCHANGED rtdbUsers
               /\ call' = [call EXCEPT ![c] = [call[c] EXCEPT !.fast = "fail", !.pc = "done"]]
    /\ UNCHANGED << handles, rest, sub, fsUsers, rtdbContentData, fsContentData,
                    rtdbSettings, fsSettings >>

\* Faulty variant of saveUserToLive_setDoc: setDoc was issued together with
\* set (not awaited in turn), so it may settle while set is in flight.
saveUserToLive_setDoc_concurrent(c) ==
    /\ call[c].op = "saveUserToLive"
    /\ call[c].pc \in {"await_rtdb", "await_fs"}
    /\ call[c].dur = "none"
    /\ \E ok \in BOOLEAN :
          LET pc == IF call[c].pc = "await_fs" THEN "done" ELSE call[c].pc
          IN  IF ok
              THEN /\ fsUsers' = [fsUsers EXCEPT ![call[c].key] = call[c].data]
                   /\ call' = [call EXCEPT ![c] =
                                  [call[c] EXCEPT !.dur = "ok", !.pc = pc]]
              ELSE /\ UNCHANGED fsUsers
                   /\ call' = [call EXCEPT ![c] =
                                  [call[c] EXCEPT !.dur = "fail", !.pc = pc]]
    /\ UNCHANGED << handles, rest, sub, rtdbUsers, rtdbContentData,
                    fsContentData, rtdbSettings, fsSettings >>

\* `await setDoc(doc(db, "users", user.id), user)` settles.
saveUserToLive_setDoc(c) ==
    /\ call[c].op = "saveUserToLive"
    /\ call[c].pc = "await_fs"
    /\ \E ok \in BOOLEAN :
          IF ok
          THEN /\ fsUsers' = [fsUsers EXCEPT ![call[c].key] = call[c].data]
               /\ call' = [call EXCEPT ![c] = [call[c] EXCEPT !.dur = "ok", !.pc = "done"]]
          ELSE /\ UNCHANGED fsUsers
               /\ call' = [call EXCEPT ![c] = [call[c] EXCEPT !.dur = "fail", !.pc = "done"]]
    /\ UNCHANGED << handles, rest, sub, rtdbUsers, rtdbContentData, fsContentData,
                    rtdbSettings, fsSettings >>

\* getUserData, entry: the guard, then `get(ref(rtdb, users/<id>))` is issued.
getUserData(c, userId) ==
    /\ Free(c) \/ Saved(c)
    /\ IF Unready
       THEN /\ call' = [call EXCEPT ![c] = Skipped("getUserData", userId, None)]
       ELSE BeginGet(c, [Idle EXCEPT !.op = "getUserData", !.pc = "await_rtdb",
                                     !.key = userId])
    /\ UNCHANGED << handles, rest, sub, stores >>

\* Faulty variant of getUserData_get: a miss in RTDB returns null at once,
\* Firestore is never consulted.
getUserData_get_noFallback(c) ==
    /\ call[c].op = "getUserData"
    /\ call[c].pc = "await_rtdb"
    /\ \E ok \in BOOLEAN :
          LET r == call[c]
              snap == rtdbUsers[r.key]
          IN  call' = [call EXCEPT ![c] =
                         IF ~ok
                         THEN [r EXCEPT !.fast = "fail", !.pc = "done"]
                         ELSE IF snap # None
                              THEN [r EXCEPT !.fast = "hit", !.pc = "done",
                                             !.res = snap]
                              ELSE [r EXCEPT !.fast = "miss", !.pc = "done"]]
    /\ UNCHANGED << handles, rest, sub, stores >>

\* `await get(...)` settles: rejected, the catch returns null; resolved with
\* an existing snapshot, its value is returned; otherwise getDoc is issued.
getUserData_get(c) ==
    /\ call[c].op = "getUserData"
    /\ call[c].pc = "await_rtdb"
    /\ \E ok \in BOOLEAN :
          LET r == call[c]
              snap == rtdbUsers[r.key]
          IN  call' = [call EXCEPT ![c] =
                         IF ~ok
                         THEN [r EXCEPT !.fast = "fail", !.pc = "done"]
                         ELSE IF snap # None
                              THEN [r EXCEPT !.fast = "hit", !.pc = "done",
                                             !.res = snap]
                              ELSE [r EXCEPT !.fast = "miss",
                                             !.pc = "await_fs"]]
    /\ UNCHANGED << handles, rest, sub, stores >>

\* `await getDoc(doc(db, "users", userId))` settles.
getUserData_getDoc(c) ==
    /\ call[c].op = "getUserData"
    /\ call[c].pc = "await_fs"
    /\ \E ok \in BOOLEAN :
          LET r == call[c]
              docSnap == fsUsers[r.key]
          IN  call' = [call EXCEPT ![c] =
                         IF ~ok
                         THEN [r EXCEPT !.dur = "fail", !.pc = "done"]
                         ELSE IF docSnap # None
                              THEN [r EXCEPT !.dur = "hit", !.pc = "done",
                                             !.res = docSnap]
                              ELSE [r EXCEPT !.dur = "miss", !.pc = "done"]]
    /\ UNCHANGED << handles, rest, sub, stores >>

\* ------------------------------------------------------------- settings
\* saveSystemSettings, entry: the guard, then `set(ref(rtdb,
\* 'system_settings'), settings)` is issued.
saveSystemSettings(c, settings) ==
    /\ Free(c)
    /\ IF Unready
       THEN /\ call' = [call EXCEPT ![c] = Skipped("saveSystemSettings",
                                                    SettingsKey, Some(settings))]
       ELSE BeginSave(c, [Idle EXCEPT !.op = "saveSystemSettings",
                                      !.pc = "await_rtdb",
                                      !.key = SettingsKey,
                                      !.data = Some(settings)])
    /\ UNCHANGED << handles, rest, sub, stores >>

\* `await set(ref(rtdb, 'system_settings'), settings)` settles.
saveSystemSettings_set(c) ==
    /\ call[c].op = "saveSystemSettings"
    /\ call[c].pc = "await_rtdb"
    /\ \E ok \in BOOLEAN :
          IF ok
          THEN /\ rtdbSettings' = call[c].data
               /\ call' = [call EXCEPT ![c].fast = "ok", ![c].pc = "await_fs"]
             ELSE /\ UNCHANGED rtdbSettings
               /\ call' = [call EXCEPT ![c] = [call[c] EXCEPT !.fast = "fail", !.pc = "done"]]
    /\ UNCHANGED << handles, rest, sub, rtdbUsers, fsUsers, rtdbContentData,
                    fsContentData, fsSettings >>

\* `await setDoc(doc(db, "config", "system_settings"), settings)` settles.
saveSystemSettings_setDoc(c) ==
    /\ call[c].op = "saveSystemSettings"
    /\ call[c].pc = "await_fs"
    /\ \E ok \in BOOLEAN :
          IF ok
          THEN /\ fsSettings' = call[c].data
               /\ call' = [call EXCEPT ![c] = [call[c] EXCEPT !.dur = "ok", !.pc = "done"]]
          ELSE /\ UNCHANGED fsSettings
               /\ call' = [call EXCEPT ![c] = [call[c] EXCEPT !.dur = "fail", !.pc = "done"]]
    /\ UNCHANGED << handles, rest, sub, rtdbUsers, fsUsers, rtdbContentData,
                    fsContentData, rtdbSettings >>

\* ------------------------------------------------------------- chapters
\* saveChapterData, entry: the guard, then `set(ref(rtdb,
\* content_data/<key>), data)` is issued.
saveChapterData(c, key, data) ==
    /\ Free(c)
    /\ IF Unready
       THEN /\ call' = [call EXCEPT
                          ![c] = Skipped("saveChapterData", key, Some(data))]
       ELSE BeginSave(c, [Idle EXCEPT !.op = "saveChapterData",
                                      !.pc = "await_rtdb",
                                      !.key = key, !.data = Some(data)])
    /\ UNCHANGED << handles, rest, sub, stores >>

\* `await set(ref(rtdb, content_data/<key>), data)` settles.
saveChapterData_set(c) ==
    /\ call[c].op = "saveChapterData"
    /\ call[c].pc = "await_rtdb"
    /\ \E ok \in BOOLEAN :
          IF ok
          THEN /\ rtdbContentData' =
                     [rtdbContentData EXCEPT ![call[c].key] = call[c].data]
               /\ call' = [call EXCEPT ![c].fast = "ok", ![c].pc = "await_fs"]
             ELSE /\ UNCHANGED rtdbContentData
               /\ call' = [call EXCEPT ![c] = [call[c] EXCEPT !.fast = "fail", !.pc = "done"]]
    /\ UNCHANGED << handles, rest, sub, rtdbUsers, fsUsers, fsContentData,
                    rtdbSettings, fsSettings >>

\* `await setDoc(doc(db, "content_data", key), data)` settles.
saveChapterData_setDoc(c) ==
    /\ call[c].op = "saveChapterData"
    /\ call[c].pc = "await_fs"
    /\ \E ok \in BOOLEAN :
          IF ok
          THEN /\ fsContentData' =
                     [fsContentData EXCEPT ![call[c].key] = call[c].data]
               /\ call' = [call EXCEPT ![c] = [call[c] EXCEPT !.dur = "ok", !.pc = "done"]]
          ELSE /\ UNCHANGED fsContentData
               /\ call' = [call EXCEPT ![c] = [call[c] EXCEPT !.dur = "fail", !.pc = "done"]]
    /\ UNCHANGED << handles, rest, sub, rtdbUsers, fsUsers, rtdbContentData,
                    rtdbSettings, fsSettings >>

\* getChapterData, entry: the guard, then `get(ref(rtdb,
\* content_data/<key>))` is issued.
getChapterData(c, key) ==
    /\ Free(c) \/ Saved(c)
    /\ IF Unready
       THEN /\ call' = [call EXCEPT ![c] = Skipped("getChapterData", key, None)]
       ELSE BeginGet(c, [Idle EXCEPT !.op = "getChapterData",
                                     !.pc = "await_rtdb", !.key = key])
    /\ UNCHANGED << handles, rest, sub, stores >>

\* `await get(...)` settles: rejected, the catch returns null; resolved with
\* an existing snapshot, its value is returned; otherwise getDoc is issued.
getChapterData_get(c) ==
    /\ call[c].op = "getChapterData"
    /\ call[c].pc = "await_rtdb"
    /\ \E ok \in BOOLEAN :
          LET r == call[c]
              snapshot == rtdbContentData[r.key]
          IN  call' = [call EXCEPT ![c] =
                         IF ~ok
                         THEN [r EXCEPT !.fast = "fail", !.pc = "done"]
                         ELSE IF snapshot # None
                              THEN [r EXCEPT !.fast = "hit", !.pc = "done",
                                             !.res = snapshot]
                              ELSE [r EXCEPT !.fast = "miss",
                                             !.pc = "await_fs"]]
    /\ UNCHANGED << handles, rest, sub, stores >>

\* `await getDoc(doc(db, "content_data", key))` settles.
getChapterData_getDoc(c) ==
    /\ call[c].op = "getChapterData"
    /\ call[c].pc = "await_fs"
    /\ \E ok \in BOOLEAN :
          LET r == call[c]
              docSnap == fsContentData[r.key]
          IN  call' = [call EXCEPT ![c] =
                         IF ~ok
                         THEN [r EXCEPT !.dur = "fail", !.pc = "done"]
                         ELSE IF docSnap # None
                              THEN [r EXCEPT !.dur = "hit", !.pc = "done",
                                             !.res = docSnap]
                              ELSE [r EXCEPT !.dur = "miss", !.pc = "done"]]
    /\ UNCHANGED << handles, rest, sub, stores >>

\* ------------------------------------------------------------- bulk links
\* The mappings a bulk upload may pass: some keys, a payload for each.
Mappings == UNION {[S -> Payloads] : S \in SUBSET LinkKeys}

\* bulkSaveLinks, entry: the guard, then `update(ref(rtdb, 'content_links'),
\* updates)` is issued.  A run follows one upload into the stores: the
\* caller starts another only while none of its uploads has dispatched a
\* Firestore write.
bulkSaveLinks(c, updates) ==
    /\ Free(c)
    /\ batch[c] = << >>
    /\ call' = [call EXCEPT ![c] =
                   IF Unready
                   THEN Skipped("bulkSaveLinks", 0, Some(updates))
                   ELSE [Idle EXCEPT !.op = "bulkSaveLinks",
                                     !.pc = "await_rtdb",
                                     !.data = Some(updates)]]
    /\ UNCHANGED << handles, rest, stores, sub >>

\* `await update(...)` settles.  Resolved: content_links holds the mapping's
\* entries (the other children stay), and the map of line 156 starts one
\* setDoc per entry, all before the function next yields.  Rejected: the
\* catch logs and the function returns.
bulkSaveLinks_update(c) ==
    /\ call[c].op = "bulkSaveLinks"
    /\ call[c].pc = "await_rtdb"
    /\ \E ok \in BOOLEAN :
          LET updates == call[c].data[1]
          IN  IF ok
              THEN /\ rtdbContentLinks' =
                         [k \in DOMAIN rtdbContentLinks |->
                             IF k \in DOMAIN updates THEN Some(updates[k])
                             ELSE rtdbContentLinks[k]]
                   /\ batch' = [batch EXCEPT ![c] =
                                  [k \in DOMAIN updates |->
                                      [data |-> updates[k], st |-> "pending",
                                       late |-> FALSE]]]
                   /\ call' = [call EXCEPT ![c].fast = "ok",
                                           ![c].pc = "await_all"]
              ELSE /\ UNCHANGED << rtdbContentLinks, batch >>
                   /\ call' = [call EXCEPT ![c] =
                                  [call[c] EXCEPT !.fast = "fail",
                                                  !.pc = "done"]]
    /\ UNCHANGED << handles, stores, fsTestResults, sub >>

\* How `await Promise.all(batchPromises)` stands for the writes `b`.
PromiseAll(b) ==
    IF \E k \in DOMAIN b : b[k].st = "fail" THEN "fail"
    ELSE IF \A k \in DOMAIN b : b[k].st = "ok" THEN "ok"
    ELSE "none"

\* The call of slot c after its writes came to stand as `b`: Promise.all
\* rejects with the first rejection and resolves when every write resolved.
Awaited(c, b) ==
    IF call[c].op = "bulkSaveLinks" /\ call[c].pc = "await_all"
       /\ PromiseAll(b) # "none"
    THEN [call EXCEPT ![c] = [call[c] EXCEPT !.dur = PromiseAll(b),
                                              !.pc = "done"]]
    ELSE call

\* Faulty variant of bulkSaveLinks_setDoc: a rejected write cancels the
\* writes of the batch that are still in flight.
bulkSaveLinks_setDoc_cancelling(c, key) ==
    /\ key \in DOMAIN batch[c]
    /\ batch[c][key].st = "pending"
    /\ \E ok \in BOOLEAN :
          LET b == IF ok
                   THEN [batch[c] EXCEPT ![key].st = "ok"]
                   ELSE [k \in DOMAIN batch[c] |->
                            IF batch[c][k].st = "pending"
                            THEN [batch[c][k] EXCEPT !.st = "fail"]
                            ELSE batch[c][k]]
          IN  /\ fsContentData' =
                    IF ok THEN [fsContentData EXCEPT
                                   ![key] = Some(batch[c][key].data)]
                    ELSE fsContentData
              /\ batch' = [batch EXCEPT ![c] = b]
              /\ call' = Awaited(c, b)
    /\ UNCHANGED << handles, rtdbUsers, fsUsers, rtdbContentData,
                    rtdbSettings, fsSettings, rtdbContentLinks,
                    fsTestResults, sub >>

\* One `await setDoc(doc(db, "content_data", key), data)` of the batch
\* settles (line 157), in any order with the others and also after
\* bulkSaveLinks has returned.
bulkSaveLinks_setDoc(c, key) ==
    /\ key \in DOMAIN batch[c]
    /\ batch[c][key].st = "pending"
    /\ \E ok \in BOOLEAN :
          LET returned == ~(call[c].op = "bulkSaveLinks"
                            /\ call[c].pc = "await_all")
              b == [batch[c] EXCEPT ![key].st = IF ok THEN "ok" ELSE "fail",
                                    ![key].late = returned]
          IN  /\ fsContentData' =
                    IF ok THEN [fsContentData EXCEPT
                                   ![key] = Some(batch[c][key].data)]
                    ELSE fsContentData
              /\ batch' = [batch EXCEPT ![c] = b]
              /\ call' = Awaited(c, b)
    /\ UNCHANGED << handles, rtdbUsers, fsUsers, rtdbContentData,
                    rtdbSettings, fsSettings, rtdbContentLinks,
                    fsTestResults, sub >>

\* `await Promise.all([])` of an empty mapping resolves.
bulkSaveLinks_all(c) ==
    /\ call[c].op = "bulkSaveLinks"
    /\ call[c].pc = "await_all"
    /\ DOMAIN batch[c] = {}
    /\ call' = Awaited(c, batch[c])
    /\ UNCHANGED << handles, rest, stores, sub >>

\* ------------------------------------------------------------- test results
\* What the wall clock may read, in milliseconds: two readings tell a
\* repeated reading from a new one.  Nothing orders the readings of two
\* calls (the clock can be set back).
Readings == {0, 1}

TestIds == {"quiz"}

\* An attempt: the code reads `attempt.testId` and stores the whole object.
Attempts == [testId : TestIds, answers : Payloads]

\* `${attempt.testId}_${Date.now()}`: the reading is written in digits, so
\* the text after the last underscore is the reading and what precedes it
\* the test id.
DocId(testId, now) == << testId, "_", now >>

\* Submissions are not awaited by the page: two can be in flight.
Submitters == {1, 2}

\* `setDoc(doc(db, "users", userId, "test_results", docId), attempt)`
\* applied: the document is created, or replaced when it exists.
SetTestResult(userId, docId, attempt) ==
    {d \in fsTestResults : ~(d.userId = userId /\ d.docId = docId)}
       \cup {[userId |-> userId, docId |-> docId, attempt |-> attempt]}

\* Faulty variant of saveTestResult_setDoc: a rejected setDoc is not caught
\* and the promise of saveTestResult rejects.
saveTestResult_setDoc_uncaught(c) ==
    /\ call[c].op = "saveTestResult"
    /\ call[c].pc = "await_fs"
    /\ \E ok \in BOOLEAN :
          IF ok
          THEN /\ fsTestResults' = SetTestResult(call[c].key[1], call[c].key[2],
                                                 call[c].data[1])
               /\ call' = [call EXCEPT ![c] =
                              [call[c] EXCEPT !.dur = "ok", !.pc = "done"]]
          ELSE /\ UNCHANGED fsTestResults
               /\ call' = [call EXCEPT ![c] =
                              [call[c] EXCEPT !.dur = "fail", !.pc = "raised"]]
    /\ UNCHANGED << handles, stores, rtdbContentLinks, batch, sub >>

\* saveTestResult, entry: the guard (db only), the document id from the
\* clock reading `now`, then setDoc is issued.
saveTestResult(c, userId, attempt, now) ==
    /\ Free(c)
    /\ call' = [call EXCEPT ![c] =
                   IF ~db
                   THEN Skipped("saveTestResult", << userId, None >>,
                                Some(attempt))
                   ELSE [Idle EXCEPT !.op = "saveTestResult",
                                     !.pc = "await_fs",
                                     !.key = << userId,
                                                DocId(attempt.testId, now) >>,
                                     !.data = Some(attempt)]]
    /\ UNCHANGED << handles, rest, stores, sub >>

\* `await setDoc(...)` settles: rejected, the catch logs.
saveTestResult_setDoc(c) ==
    /\ call[c].op = "saveTestResult"
    /\ call[c].pc = "await_fs"
    /\ \E ok \in BOOLEAN :
          IF ok
          THEN /\ fsTestResults' = SetTestResult(call[c].key[1], call[c].key[2],
                                                 call[c].data[1])
               /\ call' = [call EXCEPT ![c] =
                              [call[c] EXCEPT !.dur = "ok", !.pc = "done"]]
          ELSE /\ UNCHANGED fsTestResults
               /\ call' = [call EXCEPT ![c] =
                              [call[c] EXCEPT !.dur = "fail", !.pc = "done"]]
    /\ UNCHANGED << handles, stores, rtdbContentLinks, batch, sub >>

\* ------------------------------------------------------------- user status
\* `new Date().toISOString()`: the reading as ISO 8601 text.
ISO(now) == << "ISO", now >>

\* The children of an RTDB node (none when the node is absent).
Fields(node) == IF node = None THEN {} ELSE DOMAIN node[1]

\* RTDB `update(ref, fields)`: the named children are written, the others
\* stay; an absent node comes to hold just the named children.
Merge(node, fields) ==
    Some([f \in Fields(node) \cup DOMAIN fields |->
             IF f \in DOMAIN fields THEN fields[f] ELSE node[1][f]])

\* updateUserStatus, entry: the guard (rtdb only), then `update(userRef,
\* { lastActiveTime: ... })` is issued with the clock reading `now`.  The
\* parameter `time` is not used.
updateUserStatus(c, userId, now) ==
    /\ Free(c)
    /\ call' = [call EXCEPT ![c] =
                   IF ~rtdb
                   THEN Skipped("updateUserStatus", userId, None)
                   ELSE [Idle EXCEPT !.op = "updateUserStatus",
                                     !.pc = "await_rtdb", !.key = userId,
                                     !.data = Some([lastActiveTime |->
                                                       ISO(now)])]]
    /\ UNCHANGED << handles, rest, stores, sub >>

\* Faulty variant of updateUserStatus_update: `set` in place of `update`,
\* the node is replaced by the timestamp alone.
updateUserStatus_update_set(c) ==
    /\ call[c].op = "updateUserStatus"
    /\ call[c].pc = "await_rtdb"
    /\ \E ok \in BOOLEAN :
          IF ok
          THEN /\ rtdbUsers' = [rtdbUsers EXCEPT ![call[c].key] = call[c].data]
               /\ call' = [call EXCEPT ![c] =
                              [call[c] EXCEPT !.fast = "ok", !.pc = "done"]]
          ELSE /\ UNCHANGED rtdbUsers
               /\ call' = [call EXCEPT ![c] =
                              [call[c] EXCEPT !.fast = "fail", !.pc = "done"]]
    /\ UNCHANGED << handles, rest, sub, fsUsers, rtdbContentData,
                    fsContentData, rtdbSettings, fsSettings >>

\* `await update(...)` settles: rejected, the empty catch swallows it.
updateUserStatus_update(c) ==
    /\ call[c].op = "updateUserStatus"
    /\ call[c].pc = "await_rtdb"
    /\ \E ok \in BOOLEAN :
          IF ok
          THEN /\ rtdbUsers' =
                     [rtdbUsers EXCEPT ![call[c].key] =
                         Merge(rtdbUsers[call[c].key], call[c].data[1])]
               /\ call' = [call EXCEPT ![c] =
                              [call[c] EXCEPT !.fast = "ok", !.pc = "done"]]
          ELSE /\ UNCHANGED rtdbUsers
               /\ call' = [call EXCEPT ![c] =
                              [call[c] EXCEPT !.fast = "fail", !.pc = "done"]]
    /\ UNCHANGED << handles, rest, sub, fsUsers, rtdbContentData,
                    fsContentData, rtdbSettings, fsSettings >>

\* ------------------------------------------------------------- user by email
\* The user documents of the query: the field it filters on, and the id.
Accounts == [id : UserIds, email : Payloads]

\* getUserByEmail, entry: the guard (db only), then `getDocs(query(
\* collection(db, "users"), where("email", "==", email)))` is issued.
getUserByEmail(c, email) ==
    /\ Free(c)
    /\ call' = [call EXCEPT ![c] =
                   IF ~db
                   THEN Skipped("getUserByEmail", email, None)
                   ELSE [Idle EXCEPT !.op = "getUserByEmail",
                                     !.pc = "await_fs", !.key = email]]
    /\ UNCHANGED << handles, rest, stores, sub >>

\* Faulty variant of getUserByEmail_getDocs: the lookup scans the RTDB users
\* node instead of querying Firestore.
getUserByEmail_getDocs_rtdb(c) ==
    /\ call[c].op = "getUserByEmail"
    /\ call[c].pc = "await_fs"
    /\ \E ok \in BOOLEAN :
          LET r == call[c]
              docs == {i \in UserIds :
                         rtdbUsers[i] # None /\ rtdbUsers[i][1].email = r.key}
              first == CHOOSE i \in docs : \A j \in docs : i <= j
          IN  call' = [call EXCEPT ![c] =
                         IF ~ok
                         THEN [r EXCEPT !.dur = "fail", !.pc = "done"]
                         ELSE IF docs # {}
                              THEN [r EXCEPT !.dur = "hit", !.pc = "done",
                                             !.res = rtdbUsers[first]]
                              ELSE [r EXCEPT !.dur = "miss", !.pc = "done"]]
    /\ UNCHANGED << handles, rest, stores, sub >>

\* `await getDocs(q)` settles: resolved and not empty, the first document
\* of the result (documents come ordered by id) is returned; resolved and
\* empty, null; rejected, the catch returns null.
getUserByEmail_getDocs(c) ==
    /\ call[c].op = "getUserByEmail"
    /\ call[c].pc = "await_fs"
    /\ \E ok \in BOOLEAN :
          LET r == call[c]
              docs == {i \in UserIds :
                         fsUsers[i] # None /\ fsUsers[i][1].email = r.key}
              first == CHOOSE i \in docs : \A j \in docs : i <= j
          IN  call' = [call EXCEPT ![c] =
                         IF ~ok
                         THEN [r EXCEPT !.dur = "fail", !.pc = "done"]
                         ELSE IF docs # {}
                              THEN [r EXCEPT !.dur = "hit", !.pc = "done",
                                             !.res = fsUsers[first]]
                              ELSE [r EXCEPT !.dur = "miss", !.pc = "done"]]
    /\ UNCHANGED << handles, rest, stores, sub >>

\* The caller takes the settled result and is between calls again.
Return(c) ==
    /\ call[c].pc = "done"
    /\ call' = [call EXCEPT ![c] = Idle]
    /\ UNCHANGED << handles, rest, sub, stores >>

\* ------------------------------------------------------------- subscriptions
\* The subscription: `status` is the store listener the returned handle
\* controls ("noop" is the `() => {}` handle); `seen` is the content the
\* store last delivered to that listener; `pending` counts the one-shot
\* fallback reads in flight.  The rest is history: snapshots handled,
\* whether the first was empty, fallback reads started and failed,
\* callback invocations and the last callback argument, calls of the handle.
\* `throwing` is the callback the subscriber passed (one that throws when it
\* is invoked, or one that returns); `escaped` counts the exceptions that
\* left a listener body into the store client that called it.
NoSub ==
    [op |-> "none", key |-> 0, status |-> "none", seen |-> None,
     pending |-> 0, nSnap |-> 0, firstEmpty |-> FALSE, nFallback |-> 0,
     nFail |-> 0, nCb |-> 0, lastCb |-> None, cancels |-> 0,
     throwing |-> FALSE, escaped |-> 0]

\* `snapshot.docs.map(doc => doc.data())` of the users collection.
FsUserList == {fsUsers[i][1] : i \in {j \in UserIds : fsUsers[j] # None}}

\* `data ? Object.values(data) : []` of the RTDB users node.
RtdbUserList == {rtdbUsers[i][1] : i \in {j \in UserIds : rtdbUsers[j] # None}}

\* `callback(x)`, a bare call as the last statement of a listener body: what
\* the callback throws leaves the body.
Invoke(r, x) ==
    [r EXCEPT !.nCb = @ + 1, !.lastCb = Some(x),
              !.escaped = IF r.throwing THEN @ + 1 ELSE @]

\* Faulty variant of subscribeToUsers: the readiness guard is missing, the
\* listener is attached whatever the handles are.
subscribeToUsers_unguarded(callback) ==
    /\ sub.status = "none"
    /\ sub' = [NoSub EXCEPT !.op = "subscribeToUsers",
                            !.throwing = callback, !.status = "attached"]
    /\ UNCHANGED << handles, rest, stores, call >>

\* subscribeToUsers: the guard, then `onSnapshot(collection(db, "users"))`.
subscribeToUsers(callback) ==
    /\ sub.status = "none"
    /\ sub' = [NoSub EXCEPT !.op = "subscribeToUsers",
                            !.throwing = callback,
                            !.status = IF Unready THEN "noop" ELSE "attached"]
    /\ UNCHANGED << handles, rest, stores, call >>

\* Faulty variant of subscribeToUsers_handler: the fallback read is started
\* for the first snapshot only; a later empty snapshot is dropped.
subscribeToUsers_handler_once(r, users) ==
    IF users # {}
    THEN Invoke(r, users)
    ELSE IF r.nSnap = 1
         THEN [r EXCEPT !.pending = @ + 1, !.nFallback = @ + 1]
         ELSE r

\* Faulty variant of subscribeToUsers_handler: every snapshot after the
\* first is handed to the callback, empty or not.
subscribeToUsers_handler_asIs(r, users) ==
    IF users # {} \/ r.nSnap > 1
    THEN Invoke(r, users)
    ELSE [r EXCEPT !.pending = @ + 1, !.nFallback = @ + 1]

\* The body of the onSnapshot listener (lines 78-89) on snapshot `users`.
subscribeToUsers_handler(r, users) ==
    IF users # {}
    THEN Invoke(r, users)
    ELSE [r EXCEPT !.pending = @ + 1, !.nFallback = @ + 1]

\* Firestore delivers a snapshot of the collection to the attached listener:
\* the initial one, then one whenever the collection differs from the last.
subscribeToUsers_onSnapshot ==
    /\ sub.op = "subscribeToUsers"
    /\ sub.status = "attached"
    /\ sub.nSnap < MaxSnapshots
    /\ sub.seen # Some(FsUserList)
    /\ sub' = subscribeToUsers_handler(
                  [sub EXCEPT !.seen = Some(FsUserList), !.nSnap = @ + 1,
                              !.firstEmpty = IF sub.nSnap = 0
                                             THEN FsUserList = {} ELSE @],
                  FsUserList)
    /\ UNCHANGED << handles, rest, stores, call >>

\* The `onValue(usersRef, ..., { onlyOnce: true })` read settles: with a
\* value, its listener (lines 85-87) calls back once; failed, it never does.
subscribeToUsers_onValue ==
    /\ sub.op = "subscribeToUsers"
    /\ sub.pending > 0
    /\ \E ok \in BOOLEAN :
          sub' = IF ok
                 THEN Invoke([sub EXCEPT !.pending = @ - 1], RtdbUserList)
                 ELSE [sub EXCEPT !.pending = @ - 1, !.nFail = @ + 1]
    /\ UNCHANGED << handles, rest, stores, call >>

\* subscribeToChapterData: the guard, then `onValue(rtdbRef, ...)`.
subscribeToChapterData(key, callback) ==
    /\ sub.status = "none"
    /\ sub' = [NoSub EXCEPT !.op = "subscribeToChapterData", !.key = key,
                            !.throwing = callback,
                            !.status = IF Unready THEN "noop" ELSE "attached"]
    /\ UNCHANGED << handles, rest, stores, call >>

\* Faulty variant of subscribeToChapterData_handler: Firestore is read for
\* the first absent delivery only.
subscribeToChapterData_handler_once(r, snapshot) ==
    IF snapshot # None
    THEN Invoke(r, snapshot[1])
    ELSE IF r.nFallback = 0
         THEN [r EXCEPT !.pending = @ + 1, !.nFallback = @ + 1]
         ELSE r

\* The body of the onValue listener (lines 204-212) on `snapshot`.
subscribeToChapterData_handler(r, snapshot) ==
    IF snapshot # None
    THEN Invoke(r, snapshot[1])
    ELSE [r EXCEPT !.pending = @ + 1, !.nFallback = @ + 1]

\* RTDB delivers the node's value to the attached listener: the initial
\* one, then one whenever the value differs from the last.
subscribeToChapterData_onValue ==
    /\ sub.op = "subscribeToChapterData"
    /\ sub.status = "attached"
    /\ sub.nSnap < MaxSnapshots
    /\ sub.seen # Some(rtdbContentData[sub.key])
    /\ sub' = subscribeToChapterData_handler(
                  [sub EXCEPT !.seen = Some(rtdbContentData[sub.key]),
                              !.nSnap = @ + 1,
                              !.firstEmpty = IF sub.nSnap = 0
                                             THEN rtdbContentData[sub.key] = None
                                             ELSE @],
                  rtdbContentData[sub.key])
    /\ UNCHANGED << handles, rest, stores, call >>

\* `getDoc(...).then(docSnap => ...)` settles: resolved with an existing
\* document, the callback gets its data; otherwise nothing is delivered.
\* What the callback throws here rejects the promise `then` returned; it
\* does not reach the store client.
subscribeToChapterData_getDoc ==
    /\ sub.op = "subscribeToChapterData"
    /\ sub.pending > 0
    /\ \E ok \in BOOLEAN :
          LET docSnap == fsContentData[sub.key]
              r == [sub EXCEPT !.pending = @ - 1]
          IN  sub' = IF ~ok THEN [r EXCEPT !.nFail = @ + 1]
                     ELSE IF docSnap # None
                          THEN [Invoke(r, docSnap[1]) EXCEPT
                                   !.escaped = r.escaped]
                          ELSE r
    /\ UNCHANGED << handles, rest, stores, call >>

\* subscribeToSettings: the guard, then `onSnapshot(doc(db, "config",
\* "system_settings"))`.
subscribeToSettings(callback) ==
    /\ sub.status = "none"
    /\ sub' = [NoSub EXCEPT !.op = "subscribeToSettings",
                            !.key = SettingsKey, !.throwing = callback,
                            !.status = IF Unready THEN "noop" ELSE "attached"]
    /\ UNCHANGED << handles, rest, stores, call >>

\* The body of the onSnapshot listener (lines 135-143) on `docSnap`.
subscribeToSettings_handler(r, docSnap) ==
    IF docSnap # None
    THEN Invoke(r, docSnap[1])
    ELSE [r EXCEPT !.pending = @ + 1, !.nFallback = @ + 1]

\* Firestore delivers a snapshot of the document to the attached listener:
\* the initial one, then one whenever the document differs from the last.
subscribeToSettings_onSnapshot ==
    /\ sub.op = "subscribeToSettings"
    /\ sub.status = "attached"
    /\ sub.nSnap < MaxSnapshots
    /\ sub.seen # Some(fsSettings)
    /\ sub' = subscribeToSettings_handler(
                  [sub EXCEPT !.seen = Some(fsSettings), !.nSnap = @ + 1,
                              !.firstEmpty = IF sub.nSnap = 0
                                             THEN fsSettings = None ELSE @],
                  fsSettings)
    /\ UNCHANGED << handles, rest, stores, call >>

\* The `onValue(ref(rtdb, 'system_settings'), ..., { onlyOnce: true })` read
\* settles: its listener (lines 140-141) calls back only with a value.
subscribeToSettings_onValue ==
    /\ sub.op = "subscribeToSettings"
    /\ sub.pending > 0
    /\ \E ok \in BOOLEAN :
          LET r == [sub EXCEPT !.pending = @ - 1]
          IN  sub' = IF ~ok THEN [r EXCEPT !.nFail = @ + 1]
                     ELSE IF rtdbSettings # None
                          THEN Invoke(r, rtdbSettings[1])
                          ELSE r
    /\ UNCHANGED << handles, rest, stores, call >>

\* Faulty variant of cancel: the handle toggles the listener, so a second
\* call attaches it again.
cancel_toggle ==
    /\ sub.status # "none"
    /\ sub.cancels < MaxCancels
    /\ sub' = [sub EXCEPT !.cancels = @ + 1,
                          !.status = CASE @ = "attached" -> "detached"
                                       [] @ = "detached" -> "attached"
                                       [] OTHER -> @]
    /\ UNCHANGED << handles, rest, stores, call >>

\* The handle returned by subscribe* is called: the unsubscribe function of
\* onSnapshot / onValue detaches the listener; `() => {}` does nothing.
cancel ==
    /\ sub.status # "none"
    /\ sub.cancels < MaxCancels
    /\ sub' = [sub EXCEPT !.cancels = @ + 1,
                          !.status = IF @ = "attached" THEN "detached" ELSE @]
    /\ UNCHANGED << handles, rest, stores, call >>

\* Another client of the shared stores (another session of this code, the
\* console, a module using the exported db / rtdb) sets or deletes a record.
FirestoreUsersChange ==
    /\ \E i \in UserIds :
          \E v \in {None} \cup {Some(u) : u \in {w \in Users : w.id = i}} :
             fsUsers' = [fsUsers EXCEPT ![i] = v]
    /\ UNCHANGED << handles, rest, rtdbUsers, rtdbContentData, fsContentData,
                    rtdbSettings, fsSettings, call, sub >>

RtdbUsersChange ==
    /\ \E i \in UserIds :
          \E v \in {None} \cup {Some(u) : u \in {w \in Users : w.id = i}} :
             rtdbUsers' = [rtdbUsers EXCEPT ![i] = v]
    /\ UNCHANGED << handles, rest, fsUsers, rtdbContentData, fsContentData,
                    rtdbSettings, fsSettings, call, sub >>

FirestoreContentChange ==
    /\ \E k \in ChapterKeys, v \in {None} \cup {Some(p) : p \in Payloads} :
          fsContentData' = [fsContentData EXCEPT ![k] = v]
    /\ UNCHANGED << handles, rest, rtdbUsers, fsUsers, rtdbContentData,
                    rtdbSettings, fsSettings, call, sub >>

RtdbContentChange ==
    /\ \E k \in ChapterKeys, v \in {None} \cup {Some(p) : p \in Payloads} :
          rtdbContentData' = [rtdbContentData EXCEPT ![k] = v]
    /\ UNCHANGED << handles, rest, rtdbUsers, fsUsers, fsContentData,
                    rtdbSettings, fsSettings, call, sub >>

FirestoreSettingsChange ==
    /\ \E v \in {None} \cup {Some(p) : p \in Payloads} : fsSettings' = v
    /\ UNCHANGED << handles, rest, rtdbUsers, fsUsers, rtdbContentData,
                    fsContentData, rtdbSettings, call, sub >>

RtdbSettingsChange ==
    /\ \E v \in {None} \cup {Some(p) : p \in Payloads} : rtdbSettings' = v
    /\ UNCHANGED << handles, rest, rtdbUsers, fsUsers, rtdbContentData,
                    fsContentData, fsSettings, call, sub >>

\* ------------------------------------------------------------- init
\* The calls of the module's try block (lines 28-32), in order; each either
\* returns the handle that is assigned, or throws.
InitCalls ==
    << "initializeApp", "getAnalytics", "getFirestore", "getDatabase",
       "getAuth" >>

\* The assignment of call number n has run when call `thrower` threw
\* (0: none did).
Assigned(n, thrower) == thrower = 0 \/ n < thrower

\* Faulty variant of InitHandles: the catch logs and leaves the handles as
\* the try block left them.
InitHandles_noReset ==
    \E thrower \in 0 .. Len(InitCalls) :
       /\ app = Assigned(1, thrower)
       /\ db = Assigned(3, thrower)
       /\ rtdb = Assigned(4, thrower)

\* The module's try block (lines 27-41): no call throws and every handle is
\* set, or one throws and the catch nulls them all.
InitHandles ==
    \E thrower \in 0 .. Len(InitCalls) :
       IF thrower = 0
       THEN /\ app = Assigned(1, thrower)
            /\ db = Assigned(3, thrower)
            /\ rtdb = Assigned(4, thrower)
       ELSE app = FALSE /\ db = FALSE /\ rtdb = FALSE

\* checkFirebaseConnection: `!!app`.
checkFirebaseConnection == app

\* What the stores may hold for a user id: nothing, or a user of that id.
StoredUsers == [UserIds -> {None} \cup {Some(u) : u \in Users}]

WellKeyed(m) == \A i \in UserIds : m[i] # None => m[i][1].id = i

NoUsers == [i \in UserIds |-> None]
NoContent == [k \in ChapterKeys |-> None]
StoredContent == [ChapterKeys -> {None} \cup {Some(p) : p \in Payloads}]
StoredSettings == {None} \cup {Some(p) : p \in Payloads}

\* Families that use neither content_links nor test results.
NoRest ==
    /\ rtdbContentLinks = << >>
    /\ batch = << >>
    /\ fsTestResults = {}

\* The stores are shared and outlive the process: at start they hold any
\* records, and one store may hold what the other lacks (migration).
InitUsers ==
    /\ family = "users"
    /\ rtdbUsers \in {m \in StoredUsers : WellKeyed(m)}
    /\ fsUsers \in {m \in StoredUsers : WellKeyed(m)}
    /\ rtdbContentData = NoContent /\ fsContentData = NoContent
    /\ rtdbSettings = None /\ fsSettings = None

InitContent ==
    /\ family = "content_data"
    /\ rtdbContentData \in StoredContent
    /\ fsContentData \in StoredContent
    /\ rtdbUsers = NoUsers /\ fsUsers = NoUsers
    /\ rtdbSettings = None /\ fsSettings = None

InitSettings ==
    /\ family = "system_settings"
    /\ rtdbSettings \in StoredSettings
    /\ fsSettings \in StoredSettings
    /\ rtdbUsers = NoUsers /\ fsUsers = NoUsers
    /\ rtdbContentData = NoContent /\ fsContentData = NoContent

NoLinks == [k \in LinkKeys |-> None]

\* Bulk uploads are started by the operator, one caller at a time.
Uploader == {1}

\* A bulk upload into fresh content namespaces.
InitLinks ==
    /\ family = "content_links"
    /\ rtdbContentLinks = NoLinks
    /\ rtdbContentData = NoLinks /\ fsContentData = NoLinks
    /\ rtdbUsers = NoUsers /\ fsUsers = NoUsers
    /\ rtdbSettings = None /\ fsSettings = None
    /\ batch = [c \in Uploader |-> << >>]
    /\ fsTestResults = {}
    /\ call = [c \in Uploader |-> Idle]

\* Submissions into a user's empty test_results collection.
InitResults ==
    /\ family = "test_results"
    /\ fsTestResults = {}
    /\ rtdbUsers = NoUsers /\ fsUsers = NoUsers
    /\ rtdbContentData = NoContent /\ fsContentData = NoContent
    /\ rtdbSettings = None /\ fsSettings = None
    /\ rtdbContentLinks = << >> /\ batch = << >>
    /\ call = [c \in Submitters |-> Idle]

\* Activity pings on users either store may hold.
InitStatus ==
    /\ family = "status"
    /\ rtdbUsers \in {m \in StoredUsers : WellKeyed(m)}
    /\ fsUsers \in {m \in StoredUsers : WellKeyed(m)}
    /\ rtdbContentData = NoContent /\ fsContentData = NoContent
    /\ rtdbSettings = None /\ fsSettings = None

StoredAccounts ==
    {m \in [UserIds -> {None} \cup {Some(u) : u \in Accounts}] : WellKeyed(m)}

\* Lookups by email; each store holds any accounts, not the same ones.
InitEmail ==
    /\ family = "email"
    /\ fsUsers \in StoredAccounts
    /\ rtdbUsers \in StoredAccounts
    /\ rtdbContentData = NoContent /\ fsContentData = NoContent
    /\ rtdbSettings = None /\ fsSettings = None

Init ==
    /\ InitHandles
    /\ \/ /\ \/ InitUsers \/ InitContent \/ InitSettings
             \/ InitStatus \/ InitEmail
          /\ NoRest
          /\ call = [c \in Slots |-> Idle]
       \/ InitLinks
       \/ InitResults
    /\ sub = NoSub

\* A run exercises one API family, over the stores of that family.
Next ==
    \/ \E c \in DOMAIN call, user \in Users :
          family = "users" /\ saveUserToLive(c, user)
    \/ \E c \in DOMAIN call : family = "users" /\ saveUserToLive_set(c)
    \/ \E c \in DOMAIN call : family = "users" /\ saveUserToLive_setDoc(c)
    \/ \E c \in DOMAIN call, userId \in UserIds :
          family = "users" /\ getUserData(c, userId)
    \/ \E c \in DOMAIN call : family = "users" /\ getUserData_get(c)
    \/ \E c \in DOMAIN call : family = "users" /\ getUserData_getDoc(c)
    \/ \E c \in DOMAIN call, settings \in Payloads :
          family = "system_settings" /\ saveSystemSettings(c, settings)
    \/ \E c \in DOMAIN call :
          family = "system_settings" /\ saveSystemSettings_set(c)
    \/ \E c \in DOMAIN call :
          family = "system_settings" /\ saveSystemSettings_setDoc(c)
    \/ \E c \in DOMAIN call, key \in ChapterKeys, data \in Payloads :
          family = "content_data" /\ saveChapterData(c, key, data)
    \/ \E c \in DOMAIN call : family = "content_data" /\ saveChapterData_set(c)
    \/ \E c \in DOMAIN call :
          family = "content_data" /\ saveChapterData_setDoc(c)
    \/ \E c \in DOMAIN call, key \in ChapterKeys :
          family = "content_data" /\ getChapterData(c, key)
    \/ \E c \in DOMAIN call : family = "content_data" /\ getChapterData_get(c)
    \/ \E c \in DOMAIN call :
          family = "content_data" /\ getChapterData_getDoc(c)
    \/ \E c \in DOMAIN call, updates \in Mappings :
          family = "content_links" /\ bulkSaveLinks(c, updates)
    \/ \E c \in DOMAIN call :
          family = "content_links" /\ bulkSaveLinks_update(c)
    \/ \E c \in DOMAIN call, key \in LinkKeys :
          family = "content_links" /\ bulkSaveLinks_setDoc(c, key)
    \/ \E c \in DOMAIN call : family = "content_links" /\ bulkSaveLinks_all(c)
    \/ \E c \in DOMAIN call, key \in LinkKeys :
          family = "content_links" /\ getChapterData(c, key)
    \/ \E c \in DOMAIN call : family = "content_links" /\ getChapterData_get(c)
    \/ \E c \in DOMAIN call :
          family = "content_links" /\ getChapterData_getDoc(c)
    \/ \E c \in DOMAIN call, userId \in UserIds, attempt \in Attempts,
          now \in Readings :
          family = "test_results" /\ saveTestResult(c, userId, attempt, now)
    \/ \E c \in DOMAIN call : family = "test_results" /\ saveTestResult_setDoc(c)
    \/ \E c \in DOMAIN call, userId \in UserIds, now \in Readings :
          family = "status" /\ updateUserStatus(c, userId, now)
    \/ \E c \in DOMAIN call : family = "status" /\ updateUserStatus_update(c)
    \/ \E c \in DOMAIN call, email \in Payloads :
          family = "email" /\ getUserByEmail(c, email)
    \/ \E c \in DOMAIN call : family = "email" /\ getUserByEmail_getDocs(c)
    \/ \E c \in DOMAIN call : Return(c)

Spec == Init /\ [][Next]_vars

\* ------------------------------------------------------------- Bulk after save
\* The operator saves chapters one by one and in bulk, and reads them back:
\* saveChapterData, bulkSaveLinks and getChapterData over the same keys,
\* starting from empty content namespaces.
InitBulk ==
    /\ InitHandles
    /\ family = "content_bulk"
    /\ rtdbContentLinks = NoLinks
    /\ rtdbContentData = NoLinks /\ fsContentData = NoLinks
    /\ rtdbUsers = NoUsers /\ fsUsers = NoUsers
    /\ rtdbSettings = None /\ fsSettings = None
    /\ batch = [c \in Uploader |-> << >>]
    /\ fsTestResults = {}
    /\ call = [c \in Uploader |-> Idle]
    /\ sub = NoSub

NextBulk ==
    \/ \E c \in DOMAIN call, key \in LinkKeys, data \in Payloads :
          saveChapterData(c, key, data)
    \/ \E c \in DOMAIN call : saveChapterData_set(c)
    \/ \E c \in DOMAIN call : saveChapterData_setDoc(c)
    \/ \E c \in DOMAIN call, updates \in Mappings : bulkSaveLinks(c, updates)
    \/ \E c \in DOMAIN call : bulkSaveLinks_update(c)
    \/ \E c \in DOMAIN call, key \in LinkKeys : bulkSaveLinks_setDoc(c, key)
    \/ \E c \in DOMAIN call : bulkSaveLinks_all(c)
    \/ \E c \in DOMAIN call, key \in LinkKeys : getChapterData(c, key)
    \/ \E c \in DOMAIN call : getChapterData_get(c)
    \/ \E c \in DOMAIN call : getChapterData_getDoc(c)
    \/ \E c \in DOMAIN call : Return(c)

SpecBulk == InitBulk /\ [][NextBulk]_vars

\* ------------------------------------------------------------- Activity
\* Users are saved, pinged and read back, over users either store may
\* already hold.
InitTouch ==
    /\ InitHandles
    /\ family = "users_status"
    /\ rtdbUsers \in {m \in StoredUsers : WellKeyed(m)}
    /\ fsUsers \in {m \in StoredUsers : WellKeyed(m)}
    /\ rtdbContentData = NoContent /\ fsContentData = NoContent
    /\ rtdbSettings = None /\ fsSettings = None
    /\ NoRest
    /\ call = [c \in Slots |-> Idle]
    /\ sub = NoSub

NextTouch ==
    \/ \E c \in DOMAIN call, user \in Users : saveUserToLive(c, user)
    \/ \E c \in DOMAIN call : saveUserToLive_set(c)
    \/ \E c \in DOMAIN call : saveUserToLive_setDoc(c)
    \/ \E c \in DOMAIN call, userId \in UserIds, now \in Readings :
          updateUserStatus(c, userId, now)
    \/ \E c \in DOMAIN call : updateUserStatus_update(c)
    \/ \E c \in DOMAIN call, userId \in UserIds : getUserData(c, userId)
    \/ \E c \in DOMAIN call : getUserData_get(c)
    \/ \E c \in DOMAIN call : getUserData_getDoc(c)
    \/ \E c \in DOMAIN call : Return(c)

SpecTouch == InitTouch /\ [][NextTouch]_vars

\* ------------------------------------------------------------- Races
\* Two callers that each make one save, of a user or of a chapter: their
\* awaits interleave in every order.
Writers == {1, 2}

InitRace ==
    /\ InitHandles
    /\ InitUsers \/ InitContent
    /\ NoRest
    /\ call = [c \in Writers |-> Idle]
    /\ sub = NoSub

NextRace ==
    \/ \E c \in DOMAIN call, user \in Users :
          family = "users" /\ saveUserToLive(c, user)
    \/ \E c \in DOMAIN call : family = "users" /\ saveUserToLive_set(c)
    \/ \E c \in DOMAIN call : family = "users" /\ saveUserToLive_setDoc(c)
    \/ \E c \in DOMAIN call, key \in ChapterKeys, data \in Payloads :
          family = "content_data" /\ saveChapterData(c, key, data)
    \/ \E c \in DOMAIN call : family = "content_data" /\ saveChapterData_set(c)
    \/ \E c \in DOMAIN call :
          family = "content_data" /\ saveChapterData_setDoc(c)

SpecRace == InitRace /\ [][NextRace]_vars

\* ------------------------------------------------------------- Subscriptions
InitSubUsers ==
    /\ family = "subscribeToUsers"
    /\ rtdbUsers \in {m \in StoredUsers : WellKeyed(m)}
    /\ fsUsers \in {m \in StoredUsers : WellKeyed(m)}
    /\ rtdbContentData = NoContent /\ fsContentData = NoContent
    /\ rtdbSettings = None /\ fsSettings = None

InitSubChapter ==
    /\ family = "subscribeToChapterData"
    /\ rtdbContentData \in StoredContent
    /\ fsContentData \in StoredContent
    /\ rtdbUsers = NoUsers /\ fsUsers = NoUsers
    /\ rtdbSettings = None /\ fsSettings = None

InitSubSettings ==
    /\ family = "subscribeToSettings"
    /\ rtdbSettings \in StoredSettings
    /\ fsSettings \in StoredSettings
    /\ rtdbUsers = NoUsers /\ fsUsers = NoUsers
    /\ rtdbContentData = NoContent /\ fsContentData = NoContent

InitSub ==
    /\ InitHandles
    /\ InitSubUsers \/ InitSubChapter \/ InitSubSettings
    /\ NoRest
    /\ call = [c \in Slots |-> Idle]
    /\ sub = NoSub

NextSub ==
    \/ \E callback \in BOOLEAN :
          family = "subscribeToUsers" /\ subscribeToUsers(callback)
    \/ family = "subscribeToUsers" /\ subscribeToUsers_onSnapshot
    \/ family = "subscribeToUsers" /\ subscribeToUsers_onValue
    \/ family = "subscribeToUsers" /\ FirestoreUsersChange
    \/ family = "subscribeToUsers" /\ RtdbUsersChange
    \/ \E key \in ChapterKeys, callback \in BOOLEAN :
          family = "subscribeToChapterData"
          /\ subscribeToChapterData(key, callback)
    \/ family = "subscribeToChapterData" /\ subscribeToChapterData_onValue
    \/ family = "subscribeToChapterData" /\ subscribeToChapterData_getDoc
    \/ family = "subscribeToChapterData" /\ FirestoreContentChange
    \/ family = "subscribeToChapterData" /\ RtdbContentChange
    \/ \E callback \in BOOLEAN :
          family = "subscribeToSettings" /\ subscribeToSettings(callback)
    \/ family = "subscribeToSettings" /\ subscribeToSettings_onSnapshot
    \/ family = "subscribeToSettings" /\ subscribeToSettings_onValue
    \/ family = "subscribeToSettings" /\ FirestoreSettingsChange
    \/ family = "subscribeToSettings" /\ RtdbSettingsChange
    \/ cancel

SpecSub == InitSub /\ [][NextSub]_vars

\* ------------------------------------------------------------- Settings, live
\* A settings subscriber next to the callers of saveSystemSettings.  What
\* the stores and the runtime owe: a write that was issued settles, a
\* one-shot read that was started settles, and Firestore delivers a
\* snapshot to an attached listener when the document differs from the one
\* it delivered last.  Nobody owes a call.
InitLive ==
    /\ InitHandles
    /\ family = "settings_live"
    /\ rtdbSettings \in StoredSettings
    /\ fsSettings \in StoredSettings
    /\ rtdbUsers = NoUsers /\ fsUsers = NoUsers
    /\ rtdbContentData = NoContent /\ fsContentData = NoContent
    /\ NoRest
    /\ call = [c \in Slots |-> Idle]
    /\ sub = NoSub

Settle ==
    \/ \E c \in DOMAIN call : saveSystemSettings_set(c)
    \/ \E c \in DOMAIN call : saveSystemSettings_setDoc(c)
    \/ subscribeToSettings_onValue

NextLive ==
    \/ \E callback \in BOOLEAN : subscribeToSettings(callback)
    \/ subscribeToSettings_onSnapshot
    \/ \E c \in DOMAIN call, settings \in Payloads :
          saveSystemSettings(c, settings)
    \/ Settle
    \/ \E c \in DOMAIN call : Return(c)
    \/ cancel

SpecLive ==
    /\ InitLive
    /\ [][NextLive]_vars
    /\ WF_vars(Settle)
    /\ WF_vars(subscribeToSettings_onSnapshot)
\* ------------------------------------------------------------- properties
Calls == {call[c] : c \in DOMAIN call}

DoneGets == {r \in Calls : r.op \in GetOps /\ r.pc = "done"}
DoneSaves == {r \in Calls : r.op \in SaveOps /\ r.pc = "done"}

\* What the two stores hold for the key a read addresses.
FastValue(r) ==
    IF r.op = "getUserData" THEN rtdbUsers[r.key] ELSE rtdbContentData[r.key]
DurableValue(r) ==
    IF r.op = "getUserData" THEN fsUsers[r.key] ELSE fsContentData[r.key]

\* The read r followed a completed save of its key, with no other writer of
\* the key since that save began.
FollowsSave(r) == r.expect # None
SavedPayload(r) == r.expect[1][1]
SaveFast(r) == r.expect[1][2]
SaveDurable(r) == r.expect[1][3]

\* C1: with both stores working (no store operation of the save or of the
\* read failed), a completed save(k, p) followed by get(k), no other writer
\* touching k, returns exactly p.
C1_SaveThenGet ==
    \A r \in DoneGets :
       ( /\ FollowsSave(r)
         /\ SaveFast(r) = "ok" /\ SaveDurable(r) = "ok"
         /\ r.fast # "fail" /\ r.dur # "fail" )
       => r.res = SavedPayload(r)

C1_Witness ==
    \E r \in DoneGets :
       /\ FollowsSave(r)
       /\ SaveFast(r) = "ok" /\ SaveDurable(r) = "ok"
       /\ r.fast = "hit"
       /\ r.res = SavedPayload(r)

\* C2: in a save whose FastStore write fails, the DurableStore write is
\* still issued.
C2_FastFailureStillWritesDurable ==
    \A r \in DoneSaves : r.fast = "fail" => r.dur # "none"

\* C3: while a store handle is null, a save writes neither store and
\* returns at once (nothing issued, undefined result).
C3_UnreadySaveIsNoOp ==
    [][ (~db \/ ~rtdb) =>
          /\ UNCHANGED stores
          /\ \A c \in DOMAIN call :
                call'[c].op \in SaveOps =>
                   /\ call'[c].pc = "done"
                   /\ call'[c].fast = "none" /\ call'[c].dur = "none"
                   /\ call'[c].res = None ]_vars

C3_Witness ==
    /\ ~db \/ ~rtdb
    /\ \E r \in DoneSaves : r.fast = "none" /\ r.dur = "none"

\* C4: with FastStore failing and DurableStore working, save(k, p) followed
\* by get(k) returns p through the DurableStore.
C4_FastDownDurableFallback ==
    \A r \in DoneGets :
       ( /\ r.op = "getUserData"
         /\ FollowsSave(r)
         /\ SaveFast(r) = "fail" /\ SaveDurable(r) # "fail"
         /\ r.fast = "fail" /\ r.dur # "fail" )
       => r.res = SavedPayload(r)

\* C5: a get whose FastStore read fails still reads the DurableStore.
C5_FastReadErrorFallsBack ==
    \A r \in DoneGets : r.fast = "fail" => r.dur # "none"

\* C6: a get whose FastStore read finds the key returns that payload and
\* does not consult the DurableStore; one that finds the key absent reads
\* the DurableStore and returns what it holds for the key.
C6_MigrationSafeRead ==
    [][ \A c \in DOMAIN call :
          LET r == call[c]
              n == call'[c]
          IN  /\ ( /\ r.op \in GetOps /\ r.pc = "await_rtdb"
                    /\ n.pc # "await_rtdb" /\ n.fast # "fail" )
                 => IF FastValue(r) # None
                    THEN /\ n.pc = "done" /\ n.dur = "none"
                         /\ n.res = FastValue(r)
                    ELSE n.pc = "await_fs"
              /\ ( /\ r.op \in GetOps /\ r.pc = "await_fs"
                    /\ n.pc = "done" /\ n.dur # "fail" )
                 => n.res = DurableValue(r) ]_vars

C6_Witness ==
    \E r \in DoneGets :
       /\ r.fast = "miss" /\ r.dur = "hit"
       /\ FastValue(r) = None
       /\ r.res = DurableValue(r) /\ r.res # None

C9_ChapterSubscription ==
    [][ sub'.op = "subscribeToChapterData" =>
          LET snapshot == rtdbContentData[sub'.key]
              docSnap == fsContentData[sub'.key]
          IN  /\ sub'.nSnap = sub.nSnap + 1 =>
                    IF snapshot # None
                    THEN /\ sub'.nCb = sub.nCb + 1
                         /\ sub'.lastCb = Some(snapshot[1])
                         /\ sub'.pending = sub.pending
                    ELSE /\ sub'.nCb = sub.nCb
                         /\ sub'.pending = sub.pending + 1
              /\ ( /\ sub'.pending + 1 = sub.pending
                    /\ sub'.nFail = sub.nFail )
                 => IF docSnap # None
                    THEN /\ sub'.nCb = sub.nCb + 1
                         /\ sub'.lastCb = Some(docSnap[1])
                    ELSE /\ sub'.nCb = sub.nCb
                         /\ sub'.lastCb = sub.lastCb
              /\ sub'.nSnap = sub.nSnap => sub'.pending <= sub.pending ]_vars

C9_Witness ==
    /\ sub.op = "subscribeToChapterData"
    /\ sub.nFallback = 2 /\ sub.pending = 0 /\ sub.nFail = 0
    /\ sub.seen = Some(None)
    /\ fsContentData[sub.key] # None
    /\ sub.lastCb = Some(fsContentData[sub.key][1])

\* C10: once the handle has been called the listener is detached and no
\* further snapshot is handled; a later call of the handle changes nothing
\* (but the count of calls) and delivers nothing.
C10_CancelIdempotent ==
    /\ [](sub.cancels >= 1 => sub.status \in {"detached", "noop"})
    /\ [][ sub.cancels >= 1 => sub'.nSnap = sub.nSnap ]_vars
    /\ [][ (sub.cancels >= 1 /\ sub'.cancels = sub.cancels + 1) =>
              /\ sub' = [sub EXCEPT !.cancels = @ + 1]
              /\ UNCHANGED << handles, rest, stores, call >> ]_vars

C10_Witness ==
    /\ sub.cancels = 2
    /\ sub.status = "detached"
    /\ sub.nSnap >= 1

\* C11: a subscribe made while a store handle is null attaches no listener
\* and returns the no-op handle; from then on no snapshot is handled, no
\* fallback read is started, the callback is never invoked, and calling the
\* handle changes nothing (but the count of calls).
C11_UnreadySubscribeIsInert ==
    /\ [][ (Unready /\ sub.status = "none" /\ sub'.status # "none")
              => sub'.status = "noop" ]_vars
    /\ [](sub.status = "noop" =>
             /\ sub.nSnap = 0 /\ sub.pending = 0 /\ sub.nFallback = 0
             /\ sub.nCb = 0 /\ sub.lastCb = None)
    /\ [][ sub.status = "noop" =>
              /\ sub'.status = "noop"
              /\ sub'.cancels = sub.cancels + 1 =>
                    /\ sub' = [sub EXCEPT !.cancels = @ + 1]
                    /\ UNCHANGED << handles, rest, stores, call >> ]_vars

C11_Witness ==
    /\ Unready
    /\ sub.op = "subscribeToSettings"
    /\ sub.status = "noop"
    /\ sub.cancels >= 1
    /\ fsSettings # None
    /\ sub.nCb = 0

\* ------------------------------------------------------------- bulk uploads
BulkCalls == {c \in DOMAIN call : call[c].op = "bulkSaveLinks"}

\* C12: in a bulk save whose RTDB update fails, the Firestore write of every
\* key of the mapping is still issued.
C12_BulkFastFailureStillWritesDurable ==
    \A c \in BulkCalls :
       (call[c].pc = "done" /\ call[c].fast = "fail")
       => \A k \in DOMAIN call[c].data[1] : k \in DOMAIN batch[c]

\* C13: once the RTDB update of a bulk save succeeded, the Firestore write
\* of every key of the mapping is issued with the key's payload; a write in
\* flight stays in flight until it settles itself, whatever happens to the
\* others and whether or not the call has returned; it can settle at any
\* time; when the store accepts it, the document holds the payload; and no
\* step settles a write together with another of the batch.
C13_BulkWritesIndependent ==
    /\ [][ \A c \in DOMAIN call :
              ( /\ call[c].op = "bulkSaveLinks" /\ call[c].pc = "await_rtdb"
                /\ call'[c].fast = "ok" )
              => \A k \in DOMAIN call[c].data[1] :
                    /\ k \in DOMAIN batch'[c]
                    /\ batch'[c][k].st = "pending"
                    /\ batch'[c][k].data = call[c].data[1][k] ]_vars
    /\ [][ \A c \in DOMAIN batch : \A k \in DOMAIN batch[c] :
              batch[c][k].st = "pending" =>
                 /\ k \in DOMAIN batch'[c]
                 /\ batch'[c][k].data = batch[c][k].data
                 /\ \/ batch'[c][k].st = "pending"
                    \/ /\ batch'[c][k].st = "ok"
                       /\ fsContentData'[k] = Some(batch[c][k].data)
                    \/ /\ batch'[c][k].st = "fail"
                       /\ fsContentData'[k] = fsContentData[k] ]_vars
    /\ [][ \A c \in DOMAIN batch : \A j, k \in DOMAIN batch[c] :
              (j # k /\ batch'[c][j] # batch[c][j])
              => batch'[c][k] = batch[c][k] ]_vars
    /\ [](\A c \in DOMAIN batch : \A k \in DOMAIN batch[c] :
             batch[c][k].st = "pending" => ENABLED bulkSaveLinks_setDoc(c, k))

C13_Witness ==
    \E c \in DOMAIN batch : \E j, k \in DOMAIN batch[c] :
       /\ batch[c][j].st = "fail"
       /\ batch[c][k].st = "ok" /\ batch[c][k].late
       /\ fsContentData[k] = Some(batch[c][k].data)

\* C14: a read that follows a bulk save of two keys or more, in which the
\* RTDB update succeeded and exactly one Firestore write failed, returns
\* the payload the mapping gave its key (no read failing).
C14_BulkThenGet ==
    \A r \in DoneGets :
       ( /\ r.afterBulk # None
         /\ LET updates == r.afterBulk[1][1]
                 st == r.afterBulk[1][3]
             IN  /\ r.afterBulk[1][2] = "ok"
                 /\ r.key \in DOMAIN updates
                 /\ Cardinality(DOMAIN updates) >= 2
                 /\ \E b \in DOMAIN st :
                       /\ st[b] = "fail"
                       /\ \A a \in DOMAIN st \ {b} : st[a] = "ok"
         /\ r.fast # "fail" /\ r.dur # "fail" )
       => r.res = Some(r.afterBulk[1][1][r.key])

\* ------------------------------------------------------------- test results
\* C15: every saveTestResult whose write is accepted adds a record of its
\* own: the records stored before are all still there, and there is one
\* more.
C15_TestResultsAppendOnly ==
    [][ \A c \in DOMAIN call :
          ( /\ call[c].op = "saveTestResult" /\ call[c].pc = "await_fs"
            /\ call'[c].dur = "ok" )
          => /\ fsTestResults \subseteq fsTestResults'
             /\ Cardinality(fsTestResults') = Cardinality(fsTestResults) + 1
      ]_vars

\* ------------------------------------------------------------- races
\* The saves of path << f, k >> the callers made.
SavesOf(f, k) == {r \in Calls : r.op \in SaveOps /\ PathOf(r) = << f, k >>}

\* No call is in flight, and every save of the path had both writes succeed.
AllSucceeded(f, k) ==
    /\ SavesOf(f, k) # {}
    /\ \A r \in Calls : r.pc \in {"idle", "done"}
    /\ \A r \in SavesOf(f, k) : r.fast = "ok" /\ r.dur = "ok"

\* C16: once every save of a key has completed with both writes succeeding,
\* RTDB and Firestore hold the same payload for the key.
C16_SavesConverge ==
    /\ \A k \in UserIds :
          AllSucceeded("users", k) => rtdbUsers[k] = fsUsers[k]
    /\ \A k \in ChapterKeys :
          AllSucceeded("content_data", k)
          => rtdbContentData[k] = fsContentData[k]

\* ------------------------------------------------------------- settings, live
\* The subscriber is attached, was last handed `dark`, which Firestore
\* holds, and a saveSystemSettings(light) has returned with its RTDB write
\* done and its Firestore write failed.
StaleDurable(dark, light) ==
    /\ sub.op = "subscribeToSettings" /\ sub.status = "attached"
    /\ sub.lastCb = Some(dark) /\ fsSettings = Some(dark)
    /\ rtdbSettings = Some(light)
    /\ \E r \in DoneSaves :
          r.data = Some(light) /\ r.fast = "ok" /\ r.dur = "fail"

\* C17: in that state the subscriber is eventually handed `light` (unless
\* it cancels first, or the snapshots of the run are used up).
C17_SettingsPropagate ==
    \A dark, light \in Payloads :
       (dark # light /\ StaleDurable(dark, light))
          ~> \/ sub.lastCb = Some(light)
             \/ sub.status # "attached"
             \/ sub.nSnap >= MaxSnapshots

\* ------------------------------------------------------------- no raise
ReadOps == GetOps \cup {"getUserByEmail"}
WriteOps ==
    SaveOps \cup {"bulkSaveLinks", "saveTestResult", "updateUserStatus"}

\* C18: no call ends by raising; a call in which a store operation failed
\* has completed normally; a read that completed returns a payload or null
\* (null when an operation of it failed), a write undefined.
C18_NothingRaises ==
    \A r \in Calls :
       /\ r.pc # "raised"
       /\ (r.fast = "fail" \/ r.dur = "fail") => r.pc = "done"
       /\ (r.op \in ReadOps /\ r.pc = "done") =>
             /\ Len(r.res) <= 1
             /\ (r.fast = "fail" \/ r.dur = "fail") => r.res = None
       /\ r.op \in WriteOps => r.res = None

C18_Witness ==
    \E r \in Calls :
       /\ r.op = "bulkSaveLinks"
       /\ r.pc = "done" /\ r.fast = "ok" /\ r.dur = "fail"

\* ------------------------------------------------------------- user status
\* C20: a step of updateUserStatus changes nothing but the lastActiveTime
\* child of RTDB users/<userId>: the node's other children, the other
\* users' nodes, every Firestore path and every other RTDB path stay; an
\* accepted update leaves the reading's ISO text in lastActiveTime.
C20_TouchOnlyLastActive ==
    [][ \A c \in DOMAIN call :
          (call'[c].op = "updateUserStatus" /\ call'[c] # call[c]) =>
             LET id == call'[c].key
                 kept == Fields(rtdbUsers[id]) \ {"lastActiveTime"}
             IN  /\ UNCHANGED << fsUsers, rtdbContentData, fsContentData,
                                 rtdbSettings, fsSettings, rest >>
                 /\ \A i \in UserIds \ {id} : rtdbUsers'[i] = rtdbUsers[i]
                 /\ Fields(rtdbUsers'[id]) \ {"lastActiveTime"} = kept
                 /\ \A f \in kept : rtdbUsers'[id][1][f] = rtdbUsers[id][1][f]
                 /\ call'[c].fast = "ok" =>
                       rtdbUsers'[id][1].lastActiveTime
                          = call[c].data[1].lastActiveTime
                 /\ call'[c].fast # "ok" => rtdbUsers'[id] = rtdbUsers[id]
      ]_vars

C20_Witness ==
    \E r \in Calls :
       /\ r.op = "updateUserStatus" /\ r.pc = "done" /\ r.fast = "ok"
       /\ Fields(rtdbUsers[r.key]) = {"id", "name", "lastActiveTime"}
       /\ fsUsers[r.key] # None
       /\ Fields(fsUsers[r.key]) = {"id", "name"}

\* ------------------------------------------------------------- callbacks
\* C19: what a callback throws never leaves the listener body it was
\* invoked from into the store client.
C19_CallbackIsolated == sub.escaped = 0

\* ------------------------------------------------------------- lookup by email
EmailLookups == {r \in Calls : r.op = "getUserByEmail" /\ r.pc = "done"}

\* The Firestore user documents whose email field is `email`.
DurableMatches(email) ==
    {i \in UserIds : fsUsers[i] # None /\ fsUsers[i][1].email = email}

\* C21: a lookup by email that has returned never touched the RTDB; what it
\* returned is a Firestore user document whose email is the argument, and
\* it returned null exactly when Firestore is not initialised, the query
\* was rejected, or no Firestore user has that email (whatever the RTDB
\* holds).
C21_EmailLookupDurableOnly ==
    \A r \in EmailLookups :
       /\ r.fast = "none"
       /\ r.res # None =>
             /\ r.res[1].email = r.key
             /\ \E i \in DurableMatches(r.key) : fsUsers[i] = r.res
       /\ r.res = None <=>
             (~db \/ r.dur = "fail" \/ DurableMatches(r.key) = {})

\* A lookup returned a user whose email the RTDB holds under no id.
C21_Witness ==
    \E r \in EmailLookups :
       /\ r.res # None
       /\ \A i \in UserIds :
             rtdbUsers[i] = None \/ rtdbUsers[i][1].email # r.key

\* ------------------------------------------------------------- write order
SaveCalls == {r \in Calls : r.op \in SaveOps}

\* C22: in one save call the Firestore write is issued only once the RTDB
\* write of that call has been issued and has resolved: while the RTDB
\* write is in flight nothing of the Firestore write has happened, and the
\* Firestore write is in flight, or has settled, only in a call whose RTDB
\* write has resolved.
C22_FastThenDurable ==
    \A r \in SaveCalls :
       /\ r.pc = "await_rtdb" => r.fast = "none" /\ r.dur = "none"
       /\ r.pc = "await_fs" => r.fast = "ok" /\ r.dur = "none"
       /\ r.dur # "none" => r.fast = "ok" /\ r.pc = "done"

\* The Firestore write of a save is in flight: the RTDB node already holds
\* the payload and the Firestore document does not yet.
C22_Witness ==
    \E r \in SaveCalls :
       /\ r.op = "saveUserToLive" /\ r.pc = "await_fs" /\ r.fast = "ok"
       /\ rtdbUsers[r.key] = r.data
       /\ fsUsers[r.key] # r.data

\* ------------------------------------------------------------- after cancel
\* C23: once the handle has been called and the listener is detached, the
\* callback is not invoked again, whatever fallback read was in flight
\* when the handle was called.
C23_NoCallbackAfterCancel ==
    [][sub.status = "detached" => sub'.nCb = sub.nCb]_vars

\* ------------------------------------------------------------- recency
\* An RTDB delivery with a value has been handled while a Firestore read,
\* started by an earlier absent delivery, is still in flight.
Overtaken ==
    /\ sub.op = "subscribeToChapterData"
    /\ sub.pending > 0
    /\ sub.seen # None /\ sub.seen[1] # None

\* C24: when a Firestore fallback read that an RTDB delivery with a value
\* has overtaken settles, the value the callback was last given is still
\* the one of that RTDB delivery, not the document the read found.
C24_FallbackNeverOvertakes ==
    [][Overtaken /\ sub'.pending < sub.pending => sub'.lastCb = sub.lastCb]_vars

\* ------------------------------------------------------------- bulk, then read
\* C25: a read that follows a bulk save in which the RTDB update and every
\* Firestore write succeeded, and that does not fail itself, returns the
\* payload the mapping gave its key, whatever saveChapterData stored under
\* that key before.
C25_BulkThenGetSameNamespace ==
    \A r \in DoneGets :
       ( /\ r.afterBulk # None
         /\ r.afterBulk[1][2] = "ok"
         /\ r.key \in DOMAIN r.afterBulk[1][1]
         /\ \A k \in DOMAIN r.afterBulk[1][3] : r.afterBulk[1][3][k] = "ok"
         /\ r.fast # "fail" /\ r.dur # "fail" )
       => r.res = Some(r.afterBulk[1][1][r.key])

\* ------------------------------------------------------------- partial records
\* C26: what getUserData returns is null or a whole user record of the id
\* asked for (the fields a save writes, lastActiveTime possibly added);
\* never the stub an activity ping left under an id the RTDB did not hold.
C26_NoPartialUser ==
    \A r \in DoneGets :
       (r.op = "getUserData" /\ r.res # None) =>
          /\ {"id", "name"} \subseteq Fields(r.res)
          /\ r.res[1].id = r.key

\* ------------------------------------------------------------- readiness
\* C27: the RTDB handle is set exactly when the Firestore handle is, and
\* exactly when checkFirebaseConnection() is true; no step of any operation
\* changes a handle.
C27_ReadinessFixed ==
    /\ []((rtdb <=> db) /\ (db <=> checkFirebaseConnection))
    /\ [][UNCHANGED << app, db, rtdb >>]_vars

\* Initialisation failed, every handle is null, and a call has been made
\* and has returned.
C27_Witness ==
    /\ ~checkFirebaseConnection /\ ~db /\ ~rtdb
    /\ \E r \in Calls : r.op = "bulkSaveLinks" /\ r.pc = "done"
====
